---------------------------- MODULE Spec2Model ----------------------------
(* A model of urth.py: the tree-walk extraction of (headword, definition)  *)
(* entries from an e-book body (process_input), the plural enrichment      *)
(* (add_plurals) and the guarded write of the glossary (safe_write), as    *)
(* main runs them.                                                          *)
(*                                                                          *)
(* Strings are sequences of one-character strings, so that strip, join and *)
(* concatenation are computed as Python computes them.                      *)
EXTENDS Integers, Sequences, FiniteSets, TLC

VARIABLES
    pc,           \* where main (or the caller of process_input) stands
    input_path,   \* main's input_path argument
    output_path,  \* main's output_path argument
    written,      \* the paths the run has written so far
    write_called, \* whether write(defs, workdir) has been invoked
    log,          \* the records handed to the logger, in order
    source,       \* the document as it was when process_input was entered
    soup,         \* the document object (get_definition decomposes in place)
    els,          \* process_input: the ResultSet of line 90 (indices in soup)
    pos,          \* process_input: index in els of the next element
    word,         \* process_input: local word
    definition,   \* process_input: local definition (list of fragments)
    result,       \* process_input: local result
    run,          \* how many times process_input has been entered
    first,        \* what the first call of process_input returned
    defs,         \* add_plurals: argument defs
    idx,          \* add_plurals: index in defs of the next entry
    new_defs,     \* add_plurals: local new_defs
    plural_count, \* add_plurals: local plural_count
    outcomes      \* what plural_engine.plural did for each entry so far

vars == <<pc, input_path, output_path, written, write_called, log, source,
          soup, els, pos, word, definition, result, run, first, defs, idx,
          new_defs, plural_count, outcomes>>

mainVars == <<input_path, output_path, written, write_called>>
parseVars == <<source, soup, els, pos, word, definition, result>>
pluralVars == <<defs, idx, new_defs, plural_count, outcomes>>

---------------------------------------------------------------------------
(* Bounds *)

\* the longest document body, in top-level nodes
MaxNodes == 3
\* the longest list handed to add_plurals when it is checked on its own
MaxDefs == 3

---------------------------------------------------------------------------
(* Python values *)

\* Python's None: a value that is no string (no sequence of characters)
None == <<"None">>

\* truthiness of an Optional[str]: None and "" are false
Truthy(s) == s # None /\ s # <<>>

\* the characters str.strip() removes
Whitespace == {" ", "\n"}

RECURSIVE LStrip(_)
LStrip(s) ==
    IF s = <<>> THEN <<>>
    ELSE IF Head(s) \in Whitespace THEN LStrip(Tail(s)) ELSE s

RECURSIVE RStrip(_)
RStrip(s) ==
    IF s = <<>> THEN <<>>
    ELSE IF s[Len(s)] \in Whitespace THEN RStrip(SubSeq(s, 1, Len(s) - 1)) ELSE s

\* str.strip()
Strip(s) == RStrip(LStrip(s))

\* sep.join(parts)
RECURSIVE Join(_, _)
Join(sep, parts) ==
    IF parts = <<>> THEN <<>>
    ELSE IF Len(parts) = 1 THEN parts[1]
    ELSE parts[1] \o sep \o Join(sep, Tail(parts))

\* x or None
OrNone(s) == IF s = <<>> THEN None ELSE s

---------------------------------------------------------------------------
(* The document tree *)

\* A top-level node is a tag (tag = TRUE) or a string between tags; a tag
\* holds its direct children, each with its class test and its get_text().
Child(b, t) == [bold |-> b, text |-> t]
Tag(cs) == [tag |-> TRUE, children |-> cs]
Str(t) == [tag |-> FALSE, children |-> <<Child(FALSE, t)>>]

\* el.get_text(): the text of all the strings below el, concatenated
RECURSIVE ConcatText(_)
ConcatText(cs) ==
    IF cs = <<>> THEN <<>> ELSE Head(cs).text \o ConcatText(Tail(cs))

get_text(el) == ConcatText(el.children)

IsBold(c) == c.bold

\* el.find_all(class_="bold", recursive=False)
find_all_bold(el) == SelectSeq(el.children, IsBold)

NotBold(c) == ~c.bold

\* el after word.decompose() for every direct child of class bold
decompose_bold(el) == [el EXCEPT !.children = SelectSeq(el.children, NotBold)]

RECURSIVE TagIndices(_, _)
TagIndices(doc, i) ==
    IF i > Len(doc) THEN <<>>
    ELSE IF doc[i].tag THEN <<i>> \o TagIndices(doc, i + 1)
    ELSE TagIndices(doc, i + 1)

\* soup.find_all(True, recursive=False): the top-level tags, in order
find_all_tags(doc) == TagIndices(doc, 1)

---------------------------------------------------------------------------
(* process_input and its helpers *)

last_word == <<"z", "o", "e", "t", "i", "c">>

br == <<"<", "b", "r", ">">>

\* the texts of a list of elements
Texts(cs) == [i \in 1..Len(cs) |-> cs[i].text]

\* merge with line 124, the strip, left out
merge_unstripped(cs) == OrNone(Join(<<" ">>, Texts(cs)))

merge(cs) == OrNone(Strip(Join(<<" ">>, Texts(cs))))

get_word(el) == merge(find_all_bold(el))

\* the value get_definition returns (its effect on el is decompose_bold)
get_definition(el) == OrNone(Strip(get_text(decompose_bold(el))))

\* join_definition joining on the empty string
join_definition_plain(definitions) == Join(<<>>, definitions)

join_definition(definitions) == Join(br, definitions)

\* lines 93-96: the previous word is flushed when a new one is detected
flush(res, w, d, current_word) ==
    IF Truthy(current_word) /\ Truthy(w)
    THEN Append(res, <<w, join_definition(d)>>)
    ELSE res

\* line 97
detect_word(w, current_word) == IF Truthy(current_word) THEN current_word ELSE w

\* line 98 left out: the fragments of the previous word are kept
keep_definition(d, current_word) == d

\* line 98
clear_definition(d, current_word) == IF Truthy(current_word) THEN <<>> ELSE d

\* lines 101-103 without the test of line 100
detect_definition_unguarded(w, el, d) ==
    IF Truthy(get_definition(el)) THEN Append(d, get_definition(el)) ELSE d

\* lines 100-103: the fragment of el is kept while a word is active
detect_definition(w, el, d) ==
    IF Truthy(w) /\ Truthy(get_definition(el))
    THEN Append(d, get_definition(el))
    ELSE d

\* lines 100-101: get_definition runs, and decomposes, only under a word
touch(w, el) == IF Truthy(w) THEN decompose_bold(el) ELSE el

\* line 104
is_last(w) == w = last_word

\* line 106 left out: the loop goes on after the sentinel
after_last_no_break(w) == "process_input"

\* lines 104-106: the loop is left at the sentinel
after_last(w) == IF is_last(w) THEN "process_return" ELSE "process_input"

\* lines 87-90: process_input is entered on the document object
process_input_enter ==
    /\ pc = "call_process_input"
    /\ source' = soup
    /\ els' = find_all_tags(soup)
    /\ pos' = 1
    /\ word' = None
    /\ definition' = <<>>
    /\ result' = <<>>
    /\ run' = run + 1
    /\ pc' = "process_input"
    /\ UNCHANGED <<soup, first, log>>
    /\ UNCHANGED mainVars
    /\ UNCHANGED pluralVars

\* lines 90-106: one iteration of the loop
process_input_iter ==
    /\ pc = "process_input"
    /\ pos <= Len(els)
    /\ LET el == soup[els[pos]]
           current_word == get_word(el)
           res1 == flush(result, word, definition, current_word)
           w1 == detect_word(word, current_word)
           d1 == clear_definition(definition, current_word)
           d2 == detect_definition(w1, el, d1)
       IN /\ soup' = [soup EXCEPT ![els[pos]] = touch(w1, el)]
          /\ word' = w1
          /\ definition' = d2
          /\ pos' = pos + 1
          /\ IF is_last(w1)
             THEN result' = Append(res1, <<w1, join_definition(d2)>>)
             ELSE result' = res1
          /\ pc' = after_last(w1)
    /\ UNCHANGED <<source, els, run, first, log>>
    /\ UNCHANGED mainVars
    /\ UNCHANGED pluralVars

\* lines 90, 107: the elements are exhausted and result is returned as it is
process_input_exhausted ==
    /\ pc = "process_input"
    /\ pos > Len(els)
    /\ pc' = "process_return"
    /\ UNCHANGED <<run, first, log>>
    /\ UNCHANGED parseVars
    /\ UNCHANGED mainVars
    /\ UNCHANGED pluralVars

\* a caller parses the same document object again, with no reload
process_input_again ==
    /\ pc = "process_return"
    /\ run = 1
    /\ first' = result
    /\ pc' = "call_process_input"
    /\ UNCHANGED <<run, log>>
    /\ UNCHANGED parseVars
    /\ UNCHANGED mainVars
    /\ UNCHANGED pluralVars

---------------------------------------------------------------------------
(* add_plurals *)

\* What plural_engine.plural(word) can do (line 138): raise, or return the
\* empty string, the word itself, or another form.
PluralOutcomes(w) ==
    { [raised |-> TRUE, value |-> None],
      [raised |-> FALSE, value |-> <<>>],
      [raised |-> FALSE, value |-> w],
      [raised |-> FALSE, value |-> w \o <<"s">>] }

\* lines 137-141: the local plural after the try statement
plural_of(o) == IF o.raised THEN None ELSE o.value

\* lines 142-146 without the comparison with the word
make_key_unchecked(w, plural) ==
    IF Truthy(plural) THEN <<w, plural>> ELSE <<w>>

\* lines 142-146: the key, a str (one form) or a list of two forms
make_key(w, plural) ==
    IF Truthy(plural) /\ plural # w THEN <<w, plural>> ELSE <<w>>

\* lines 137-147 with the failed entry skipped in the except clause
add_entry_skip_failed(nd, w, d, o) ==
    IF o.raised THEN nd ELSE Append(nd, <<make_key(w, o.value), d>>)

\* lines 137-147: new_defs after the entry (w, d) is handled
add_entry(nd, w, d, o) == Append(nd, <<make_key(w, plural_of(o)), d>>)

\* lines 133-135: add_plurals is entered on what process_input returned
add_plurals_enter ==
    /\ pc = "process_return"
    /\ defs' = result
    /\ idx' = 1
    /\ new_defs' = <<>>
    /\ plural_count' = 0
    /\ outcomes' = <<>>
    /\ pc' = "add_plurals"
    /\ UNCHANGED <<run, first, log>>
    /\ UNCHANGED parseVars
    /\ UNCHANGED mainVars

\* lines 136-147: one iteration of the loop
add_plurals_iter ==
    /\ pc = "add_plurals"
    /\ idx <= Len(defs)
    /\ \E o \in PluralOutcomes(defs[idx][1]) :
          LET w == defs[idx][1]
              d == defs[idx][2]
          IN /\ outcomes' = Append(outcomes, o)
             /\ log' = IF o.raised
                       THEN Append(log, "warning: Failure while checking plural")
                       ELSE log
             /\ new_defs' = add_entry(new_defs, w, d, o)
             /\ plural_count' = IF Len(make_key(w, plural_of(o))) = 2
                                THEN plural_count + 1
                                ELSE plural_count
    /\ idx' = idx + 1
    /\ UNCHANGED <<pc, defs, run, first>>
    /\ UNCHANGED parseVars
    /\ UNCHANGED mainVars

\* lines 148-149: the count is logged and new_defs returned
add_plurals_return ==
    /\ pc = "add_plurals"
    /\ idx > Len(defs)
    /\ log' = Append(log, "info: Added plural forms")
    /\ pc' = "safe_write"
    /\ UNCHANGED <<run, first>>
    /\ UNCHANGED parseVars
    /\ UNCHANGED mainVars
    /\ UNCHANGED pluralVars

---------------------------------------------------------------------------
(* main, save_soup and safe_write *)

\* A path is its parent directory and its name, the name a stem and a suffix.
Path(dir, stem, suffix) == [parent |-> dir, name |-> <<stem, suffix>>]

\* Path.with_suffix
with_suffix(p, suffix) == [p EXCEPT !.name[2] = suffix]

\* lines 80-81
html_path(inp, out) ==
    [parent |-> out.parent, name |-> with_suffix(inp, ".html").name]

\* line 160, inside the temporary directory
result_path == Path("tmp/urth_mobipocket/OEBPS", "content", ".mobi")

\* lines 79-83, then line 57 calls process_input
save_soup ==
    /\ pc = "save_soup"
    /\ written' = written \cup {html_path(input_path, output_path)}
    /\ log' = Append(log, "info: Wrote raw HTML")
    /\ pc' = "call_process_input"
    /\ UNCHANGED <<input_path, output_path, write_called, run, first>>
    /\ UNCHANGED parseVars
    /\ UNCHANGED pluralVars

\* line 153 left out: the list is written whatever its length
never_nothing(ds) == FALSE

\* line 153: not defs
nothing_to_write(ds) == ds = <<>>

\* lines 152-169; produced says whether write left result_path behind
safe_write ==
    /\ pc = "safe_write"
    /\ IF nothing_to_write(new_defs)
       THEN /\ log' = Append(log, "warning: No definitions found, no mobi created")
            /\ UNCHANGED <<written, write_called>>
       ELSE \E produced \in BOOLEAN :
               /\ write_called' = TRUE
               /\ written' = IF produced
                             THEN written \cup {result_path, output_path}
                             ELSE written
               /\ log' = log \o
                      <<"info: Parsed definitions", "info: Writing dictionary...",
                        IF produced THEN "info: Successfully created"
                        ELSE "warning: Some error occurred, no mobi was created">>
    /\ pc' = "done"
    /\ UNCHANGED <<input_path, output_path, run, first>>
    /\ UNCHANGED parseVars
    /\ UNCHANGED pluralVars

---------------------------------------------------------------------------
(* The documents and lists the runs start from *)

\* head words and texts of the sample elements
alef == <<"a">>
beth == <<"b">>

Nodes ==
    { Str(<<"\n">>),
      Tag(<<Child(FALSE, <<"j", " ">>)>>),
      Tag(<<Child(TRUE, alef), Child(FALSE, <<" ", "d">>)>>),
      Tag(<<Child(TRUE, beth), Child(TRUE, <<"c">>)>>),
      Tag(<<Child(TRUE, last_word), Child(FALSE, <<"f">>)>>),
      Tag(<<Child(FALSE, <<"e">>), Child(TRUE, <<" ">>), Child(FALSE, <<"g", "\n">>)>>),
      Tag(<<Child(TRUE, last_word), Child(TRUE, <<>>)>>) }

SeqsUpTo(S, n) == UNION { [1..k -> S] : k \in 0..n }

Documents == SeqsUpTo(Nodes, MaxNodes)

\* the state the locals of process_input and add_plurals have before a call
Idle ==
    /\ source = <<>> /\ els = <<>> /\ pos = 1 /\ word = None
    /\ definition = <<>> /\ result = <<>> /\ run = 0 /\ first = <<>>
    /\ defs = <<>> /\ idx = 1 /\ new_defs = <<>> /\ plural_count = 0
    /\ outcomes = <<>>

\* lines 54-55: main has configured the logger and loaded the document
Init ==
    /\ pc = "save_soup"
    /\ input_path = Path("books", "lexicon", ".epub")
    /\ output_path \in {Path("out", "lexicon", ".mobi"), Path("out", "lexicon", ".html")}
    /\ written = {}
    /\ write_called = FALSE
    /\ log = <<>>
    /\ soup \in Documents
    /\ Idle

Next ==
    \/ save_soup
    \/ process_input_enter
    \/ process_input_iter
    \/ process_input_exhausted
    \/ add_plurals_enter
    \/ add_plurals_iter
    \/ add_plurals_return
    \/ safe_write

Spec == Init /\ [][Next]_vars

\* process_input called twice on one document object
InitReparse ==
    /\ pc = "call_process_input"
    /\ input_path = Path("books", "lexicon", ".epub")
    /\ output_path = Path("out", "lexicon", ".mobi")
    /\ written = {}
    /\ write_called = FALSE
    /\ log = <<>>
    /\ soup \in Documents
    /\ Idle

NextReparse ==
    \/ process_input_enter
    \/ process_input_iter
    \/ process_input_exhausted
    \/ process_input_again

SpecReparse == InitReparse /\ [][NextReparse]_vars

\* add_plurals on any list of entries
Words == {<<>>, alef, last_word}

Entries == Words \X {<<>>, <<"d">>}

InitPlurals ==
    /\ pc = "add_plurals"
    /\ input_path = Path("books", "lexicon", ".epub")
    /\ output_path = Path("out", "lexicon", ".mobi")
    /\ written = {}
    /\ write_called = FALSE
    /\ log = <<>>
    /\ soup = <<>> /\ source = <<>> /\ els = <<>> /\ pos = 1 /\ word = None
    /\ definition = <<>> /\ result = <<>> /\ run = 0 /\ first = <<>>
    /\ defs \in SeqsUpTo(Entries, MaxDefs)
    /\ idx = 1 /\ new_defs = <<>> /\ plural_count = 0 /\ outcomes = <<>>

NextPlurals ==
    \/ add_plurals_iter
    \/ add_plurals_return

SpecPlurals == InitPlurals /\ [][NextPlurals]_vars

---------------------------------------------------------------------------
(* What the claims speak of, read off the document as the call received it *)

\* the k-th element process_input iterates over, as it was on entry
SrcEl(k) == source[els[k]]

\* the headword candidate of an element: the trimmed, space-joined text of
\* its direct marker children
Candidate(el) == Strip(Join(<<" ">>, Texts(SelectSeq(el.children, IsBold))))

HasCandidate(k) == Candidate(SrcEl(k)) # <<>>

\* the trimmed text of an element, its marker children excluded
Fragment(el) == Strip(ConcatText(SelectSeq(el.children, NotBold)))

RECURSIVE PositionsFrom(_)
PositionsFrom(k) ==
    IF k > Len(els) THEN <<>>
    ELSE IF HasCandidate(k) THEN <<k>> \o PositionsFrom(k + 1)
    ELSE PositionsFrom(k + 1)

\* the positions of the elements with a non-empty candidate, in order
HeadPositions == PositionsFrom(1)

\* the first element whose candidate is the sentinel, 0 when there is none
FirstSentinel ==
    IF \E k \in 1..Len(els) : Candidate(SrcEl(k)) = last_word
    THEN CHOOSE k \in 1..Len(els) :
            /\ Candidate(SrcEl(k)) = last_word
            /\ \A m \in 1..(k - 1) : Candidate(SrcEl(m)) # last_word
    ELSE 0

\* the first element with a non-empty candidate, Len(els) + 1 when none
FirstHead == IF HeadPositions = <<>> THEN Len(els) + 1 ELSE HeadPositions[1]

\* the last element the run consumes
LastConsumed == IF FirstSentinel > 0 THEN FirstSentinel ELSE Len(els)

\* the heads among the consumed elements
ConsumedHeads == SelectSeq(HeadPositions, LAMBDA k : k <= LastConsumed)

RECURSIVE FragmentsOf(_, _)
\* the non-empty fragments of the elements a..b, in order
FragmentsOf(a, b) ==
    IF a > b THEN <<>>
    ELSE IF Fragment(SrcEl(a)) # <<>>
         THEN <<Fragment(SrcEl(a))>> \o FragmentsOf(a + 1, b)
         ELSE FragmentsOf(a + 1, b)

\* process_input has just returned
Returned == pc = "process_return"

Parsing == pc = "process_input" \/ Returned

---------------------------------------------------------------------------
(* C1. Termination: when some element yields the sentinel, the returned    *)
(* list holds exactly one entry keyed by the sentinel, that entry is the   *)
(* last one, and no element after the first sentinel element gives rise to *)
(* an entry or is even looked at, however many elements remain.            *)
C1_Termination ==
    (Returned /\ FirstSentinel > 0) =>
        /\ result # <<>>
        /\ result[Len(result)][1] = last_word
        /\ Cardinality({j \in DOMAIN result : result[j][1] = last_word}) = 1
        /\ Len(result) = Len(ConsumedHeads)
        /\ \A j \in DOMAIN result : result[j][1] = Candidate(SrcEl(ConsumedHeads[j]))
        /\ pos = FirstSentinel + 1
        /\ \A k \in (FirstSentinel + 1)..Len(els) : soup[els[k]] = source[els[k]]

\* the sentinel was met with a later element that has a headword of its own
C1_Witness ==
    /\ Returned
    /\ FirstSentinel > 0
    /\ \E k \in (FirstSentinel + 1)..Len(els) :
          HasCandidate(k) /\ Candidate(SrcEl(k)) # last_word

(* C3. Every recognised headword is emitted once, in document order: the   *)
(* keys of the returned list are the non-empty candidates of the consumed  *)
(* elements (up to the first sentinel element, or up to the end of the     *)
(* input), one entry per candidate.                                        *)
C3_EveryHeadwordEmitted ==
    Returned =>
        /\ Len(result) = Len(ConsumedHeads)
        /\ \A j \in DOMAIN result : result[j][1] = Candidate(SrcEl(ConsumedHeads[j]))

(* C5. Front-matter discard: while only elements before the first one with *)
(* a non-empty candidate have been consumed, nothing has been collected    *)
(* for any entry; a document with no candidate at all gives the empty      *)
(* list; and every returned definition is made of the fragments of its own *)
(* headword element and of elements after it, never of an earlier one.     *)
C5_FrontMatterDiscard ==
    /\ (Parsing /\ pos <= FirstHead) =>
          (word = None /\ definition = <<>> /\ result = <<>>)
    /\ (Returned /\ HeadPositions = <<>>) => result = <<>>
    /\ (Returned /\ result # <<>>) =>
          \A j \in DOMAIN result :
             result[j][2] \in
                { join_definition(FragmentsOf(ConsumedHeads[j], b)) :
                     b \in ConsumedHeads[j]..Len(els) }

\* front matter with text of its own was followed by an emitted entry
C5_Witness ==
    /\ Returned
    /\ result # <<>>
    /\ FirstHead > 1
    /\ \E k \in 1..(FirstHead - 1) : Fragment(SrcEl(k)) # <<>>

(* C9. Definition assembly: the definition of every returned entry but the *)
(* sentinel's is the "<br>"-join of the non-empty fragments of the element *)
(* where its headword was recognised and of the elements that follow, up   *)
(* to but not including the next element with a non-empty candidate.       *)
C9_DefinitionAssembly ==
    Returned =>
        \A j \in DOMAIN result :
            (FirstSentinel = 0 \/ j < Len(result)) =>
                /\ j + 1 <= Len(HeadPositions)
                /\ result[j][2] =
                      Join(br, FragmentsOf(HeadPositions[j], HeadPositions[j + 1] - 1))

\* an entry was assembled from the fragments of two elements
C9_Witness ==
    /\ Returned
    /\ \E j \in DOMAIN result :
          /\ j < Len(result)
          /\ HeadPositions[j + 1] - HeadPositions[j] >= 2
          /\ result[j][2] = <<"d">> \o br \o <<"e", "g">>

(* C10. The sentinel entry holds one fragment at most: its definition is   *)
(* the trimmed marker-excluded text of the sentinel element alone (empty   *)
(* when that element has none).                                            *)
C10_SentinelOneFragment ==
    (Returned /\ FirstSentinel > 0) =>
        /\ Len(definition) <= 1
        /\ result[Len(result)][2] = Fragment(SrcEl(FirstSentinel))

\* the sentinel came after an entry with text and before an element with text
C10_Witness ==
    /\ Returned
    /\ FirstSentinel > 1
    /\ FirstSentinel < Len(els)
    /\ Len(result) >= 2
    /\ result[Len(result) - 1][2] # <<>>
    /\ result[Len(result)][2] = <<"f">>
    /\ Fragment(SrcEl(FirstSentinel + 1)) # <<>>

\* only whitespace, or nothing at all
AllBlank(s) == \A i \in DOMAIN s : s[i] \in Whitespace

\* el has direct marker children and their joined text is blank
BlankMarker(el) ==
    /\ \E i \in DOMAIN el.children : el.children[i].bold
    /\ AllBlank(Join(<<" ">>, Texts(SelectSeq(el.children, IsBold))))

(* C4. Empty-headword rejection: an iteration on an element whose direct   *)
(* marker children have empty or whitespace-only joined text appends no    *)
(* entry, leaves the active headword and the fragments collected so far as *)
(* they are, and appends the element's non-empty remaining text to the     *)
(* active entry's fragments, as for an element with no marker.             *)
C4_EmptyHeadwordRejected ==
    [][ (pc = "process_input" /\ pos <= Len(els) /\ BlankMarker(soup[els[pos]]))
          => /\ result' = result
             /\ word' = word
             /\ definition' =
                   IF word # None /\ Fragment(soup[els[pos]]) # <<>>
                   THEN Append(definition, Fragment(soup[els[pos]]))
                   ELSE definition ]_vars

\* an element with a blank marker has just added its text to an active
\* entry that already had a fragment
C4_Witness ==
    /\ pc = "process_input"
    /\ pos > 1
    /\ BlankMarker(SrcEl(pos - 1))
    /\ word # None
    /\ Len(definition) >= 2
    /\ definition[Len(definition)] = Fragment(SrcEl(pos - 1))

(* C2. Idempotence of re-parsing: process_input called twice in a row on   *)
(* the same document object returns the same entries both times.           *)
C2_ReparseIdempotent ==
    (pc = "process_return" /\ run = 2) => result = first

(* C6. Enrichment monotonicity: every key add_plurals builds is either the *)
(* headword alone (the plural is empty, missing or the headword itself) or *)
(* the pair [headword, plural] with the plural non-empty and different     *)
(* from the headword; never reordered, never two equal forms, never more   *)
(* than two.                                                               *)
C6_EnrichmentMonotone ==
    \A i \in DOMAIN new_defs :
        LET key == new_defs[i][1]
            w == defs[i][1]
            o == outcomes[i]
        IN /\ Len(key) \in {1, 2}
           /\ key[1] = w
           /\ Len(key) = 1 <=> (o.raised \/ o.value = <<>> \/ o.value = w)
           /\ Len(key) = 2 =>
                 (~o.raised /\ key[2] = o.value /\ key[2] # <<>> /\ key[2] # w)

\* one list got both kinds of key: a pair, and a headword whose plural is
\* the headword itself
C6_Witness ==
    /\ pc = "safe_write"
    /\ \E i, j \in DOMAIN new_defs :
          /\ Len(new_defs[i][1]) = 2
          /\ Len(new_defs[j][1]) = 1
          /\ ~outcomes[j].raised
          /\ outcomes[j].value = defs[j][1]
          /\ defs[j][1] # <<>>

(* C7. A pluralizer failure is recovered per entry: add_plurals handles    *)
(* every entry and returns a list as long as its input; the entry whose    *)
(* headword made the pluralizer raise keeps its one key and its            *)
(* definition, and every other entry is what its own plural makes it.      *)
C7_FailureRecovered ==
    /\ pc = "add_plurals" => Len(new_defs) = idx - 1
    /\ pc = "safe_write" => Len(new_defs) = Len(defs)
    /\ Len(outcomes) = Len(new_defs)
    /\ \A i \in DOMAIN new_defs :
          /\ i <= Len(defs)
          /\ new_defs[i][2] = defs[i][2]
          /\ outcomes[i].raised => new_defs[i][1] = <<defs[i][1]>>
          /\ ~outcomes[i].raised =>
                new_defs[i][1] =
                   IF outcomes[i].value # <<>> /\ outcomes[i].value # defs[i][1]
                   THEN <<defs[i][1], outcomes[i].value>>
                   ELSE <<defs[i][1]>>

\* the pluralizer raised for the first entry and an entry after it got its
\* plural
C7_Witness ==
    /\ pc = "safe_write"
    /\ Len(defs) >= 2
    /\ outcomes[1].raised
    /\ \E i \in 2..Len(new_defs) : Len(new_defs[i][1]) = 2

(* C8. Zero entries means nothing is written: when process_input extracts  *)
(* no entry, the glossary writer is never invoked, the output path is not  *)
(* created and the command writes no file at all.                          *)
C8_NothingWritten ==
    (pc = "done" /\ result = <<>>) =>
        /\ ~write_called
        /\ output_path \notin written
        /\ written = {}

(* C8 as amended: when process_input extracts no entry, the glossary       *)
(* writer is never invoked and safe_write writes nothing; the one file the *)
(* command has written is the raw HTML dump of save_soup, and the output   *)
(* path is written only if it is that dump's own path.                     *)
C8_OnlyRawHtmlWritten ==
    (pc = "done" /\ result = <<>>) =>
        /\ ~write_called
        /\ written = {html_path(input_path, output_path)}
        /\ output_path \in written =>
              output_path = html_path(input_path, output_path)
        /\ log[Len(log)] = "warning: No definitions found, no mobi created"

\* a document with elements, one of them with a headword, gave no entry
C8_Witness ==
    /\ pc = "done"
    /\ result = <<>>
    /\ HeadPositions # <<>>
    /\ output_path # html_path(input_path, output_path)

===========================================================================
